---- MODULE Spec2Model ----
(***************************************************************************)
(* A model of the ADK telemetry pipeline:                                  *)
(*   - internal/telemetry: the span-processor registry, the do-once local  *)
(*     tracer provider, StartTrace's two-span fan-out and the three        *)
(*     annotators TraceLLMCall / TraceToolCall / TraceMergedToolCalls;     *)
(*   - cmd/restapi/services: APIServerSpanExporter (the debug trace store);*)
(*   - cmd/restapi/handlers: DebugAPIController (TraceDict, EventGraph).   *)
(***************************************************************************)
EXTENDS Integers, Sequences, FiniteSets, TLC

(***************************************************************************)
(* Bounds of the model.                                                    *)
(***************************************************************************)
\* goroutines of the registry specification
NumThreads == 2
\* AddSpanProcessor, StartTrace and RegisterTelemetry calls in one behaviour
MaxCalls == 4

Threads == 1..NumThreads
\* the span processors the embedder registers
Procs == {"P1", "P2"}
\* no goroutine (an unlocked mutex)
NoThread == 0

\* A Go pointer: Nil, or Ptr(x) pointing at x.
Nil == <<>>
Ptr(x) == <<x>>
Deref(p) == p[1]

\* Operation names passed to StartTrace.
TraceNames == {"call_llm", "execute_tool"}

VARIABLES
  \* ---- internal/telemetry: package state ----
  spanProcessors,   \* localTracerConfig.spanProcessors
  mu,               \* localTracerConfig.mu: the thread holding the write lock
  once,             \* sync.Once: "new" | "running" | "done"
  localTracer,      \* localTracer.tp, an interface of two words: [typ, data]
  providers,        \* the sdktrace.TracerProviders created: provider -> processors attached
  \* ---- internal/telemetry: per goroutine ----
  pc,               \* where each goroutine is
  arg,              \* the argument of the call in progress
  tp,               \* traceProvider (line 72)
  snap,             \* spanProcessors (line 74), the slice header copied under RLock
  idx,              \* the range index of line 76
  pending,          \* the words of localTracer line 79 has still to store
  caller,           \* who called RegisterTelemetry: "getTracers" | "direct"
  spans,            \* the spans StartTrace returned to this goroutine
  call,             \* the annotator call of this goroutine and its arguments
  outcome,          \* how the annotator call of this goroutine ended
  \* ---- history of the registry ----
  nCalls,           \* the calls begun
  firstStart,       \* has a StartTrace call begun
  regBefore,        \* the processors registered when the first StartTrace began
  raced,            \* an append happened between that moment and the snapshot
  initBy,           \* the kind of call that ran the initializer
  initHist,         \* history: the processor list when the initializer began and
                    \* when it copied the slice; an append fell into its loop
  initRuns,         \* how many times the initializer body has been entered
  lateAdd,          \* an AddSpanProcessor call began after a StartTrace completed
  firstDone,        \* Ptr(processors attached) once a first StartTrace has completed
  \* ---- cmd/restapi/services: APIServerSpanExporter ----
  traceDict,        \* s.traceDict: event id -> attribute map
  exported,         \* history: every span handed to ExportSpans, in order
  isShutdown,       \* history: Shutdown has been called
  exportedAtShutdown, \* history: the number of spans exported before it
  \* ---- cmd/restapi/handlers: DebugAPIController ----
  traceReq,         \* the event_id of the last TraceDict request
  traceResp,        \* the response the last TraceDict request got
  graphReq,         \* the last EventGraph request and what its collaborators answer
  graphResp,        \* the response the last EventGraph request got
  graphEvent,       \* event (line 83) of the last EventGraph request
  highlightedPairs, \* Ptr(highlightedPairs) once the last EventGraph computed them
  \* ---- the exporter and the handler as two goroutines on s.traceDict ----
  exporterPc,       \* where the goroutine in ExportSpans is
  exportBatch,      \* spans, the argument of the ExportSpans call in progress
  exportIdx,        \* the position of its range loop in spans
  handlerPc,        \* where the goroutine in TraceDict is
  readRaced         \* a map write was in progress during the map read in progress

regVars == <<spanProcessors, mu, once, localTracer, providers, pc, arg, tp, snap,
             idx, pending, caller, spans, call, outcome, nCalls, firstStart,
             regBefore, raced, initBy, initHist, initRuns, lateAdd, firstDone>>

storeVars == <<traceDict, exported, isShutdown, exportedAtShutdown, traceReq,
               traceResp>>

graphVars == <<graphReq, graphResp, graphEvent, highlightedPairs>>

raceVars == <<exporterPc, exportBatch, exportIdx, handlerPc, readRaced>>

vars == <<regVars, storeVars, graphVars, raceVars>>

(***************************************************************************)
(* internal/telemetry: the registry and the do-once tracer provider.       *)
(***************************************************************************)
systemName == "gcp.vertex.agent"

\* An HTTP response not written yet.
NoResponse == [status |-> 0, body |-> <<>>]

\* NewAPIServerSpanExporter(): traceDict: make(map[string]map[string]string)
StoreInit ==
  /\ traceDict = <<>>
  /\ exported = <<>>
  /\ isShutdown = FALSE
  /\ exportedAtShutdown = 0
  /\ traceReq = ""
  /\ traceResp = NoResponse

NoRequest == [sessionIDErr |-> FALSE, getErr |-> FALSE, events |-> <<>>,
              eventID |-> "", appName |-> "", renderErr |-> FALSE]

GraphInit ==
  /\ graphReq = NoRequest
  /\ graphResp = NoResponse
  /\ graphEvent = Nil
  /\ highlightedPairs = Nil

\* No ExportSpans call and no TraceDict request is in progress.
RaceInit ==
  /\ exporterPc = "idle"
  /\ exportBatch = <<>>
  /\ exportIdx = 1
  /\ handlerPc = "idle"
  /\ readRaced = FALSE

NoCall == [fn |-> "none", event |-> Nil, request |-> Nil]

Init ==
  /\ spanProcessors = <<>>
  /\ mu = NoThread
  /\ once = "new"
  /\ localTracer = [typ |-> FALSE, data |-> 0]
  /\ providers = <<>>
  /\ pc = [t \in Threads |-> "idle"]
  /\ arg = [t \in Threads |-> 0]
  /\ tp = [t \in Threads |-> 0]
  /\ snap = [t \in Threads |-> <<>>]
  /\ idx = [t \in Threads |-> 0]
  /\ pending = [t \in Threads |-> {}]
  /\ caller = [t \in Threads |-> "none"]
  /\ spans = [t \in Threads |-> <<>>]
  /\ call = [t \in Threads |-> NoCall]
  /\ outcome = [t \in Threads |-> "none"]
  /\ nCalls = 0
  /\ firstStart = FALSE
  /\ regBefore = <<>>
  /\ raced = FALSE
  /\ initBy = "none"
  /\ initHist = [atStart |-> <<>>, atSnapshot |-> <<>>, inLoop |-> FALSE]
  /\ initRuns = 0
  /\ lateAdd = FALSE
  /\ firstDone = Nil
  /\ StoreInit
  /\ GraphInit
  /\ RaceInit

\* The initializer has copied the slice header (line 74).
Snapshotted == once = "done" \/ \E t \in Threads : pc[t] \in {"reg76", "reg79"}

\* AddSpanProcessor(processor): the call begins.
AddSpanProcessor(t, processor) ==
  /\ pc[t] = "idle"
  /\ nCalls < MaxCalls
  /\ pc' = [pc EXCEPT ![t] = "add63"]
  /\ arg' = [arg EXCEPT ![t] = processor]
  /\ nCalls' = nCalls + 1
  /\ lateAdd' = (lateAdd \/ firstDone # Nil)
  /\ UNCHANGED <<spanProcessors, mu, once, localTracer, providers, tp, snap, idx,
                 pending, caller, spans, outcome, firstStart,
                 regBefore, raced, initBy, initHist, initRuns, firstDone>>
  /\ UNCHANGED <<call, storeVars, graphVars, raceVars>>

\* line 63: localTracerConfig.mu.Lock()
AddLock(t) ==
  /\ pc[t] = "add63"
  /\ mu = NoThread
  /\ mu' = t
  /\ pc' = [pc EXCEPT ![t] = "add65"]
  /\ UNCHANGED <<spanProcessors, once, localTracer, providers, arg, tp, snap, idx,
                 pending, caller, spans, outcome, nCalls,
                 firstStart, regBefore, raced, initBy, initHist, initRuns, lateAdd, firstDone>>
  /\ UNCHANGED <<call, storeVars, graphVars, raceVars>>

\* AddAppend with a late registration attached to a provider already published.
AddAppendEager(t) ==
  /\ pc[t] = "add65"
  /\ spanProcessors' = Append(spanProcessors, arg[t])
  /\ providers' = IF localTracer.data # 0
                    THEN [providers EXCEPT ![localTracer.data] = Append(@, arg[t])]
                    ELSE providers
  /\ mu' = NoThread
  /\ pc' = [pc EXCEPT ![t] = "idle"]
  /\ raced' = (raced \/ (firstStart /\ ~Snapshotted))
  /\ initHist' = [initHist EXCEPT
                    !.inLoop = @ \/ \E u \in Threads : pc[u] = "reg76"]
  /\ arg' = [arg EXCEPT ![t] = 0]
  /\ UNCHANGED <<once, localTracer, tp, snap, idx, pending, caller,
                 spans, outcome, nCalls, firstStart, regBefore,
                 initBy, initRuns, lateAdd, firstDone>>
  /\ UNCHANGED <<call, storeVars, graphVars, raceVars>>

\* lines 64-65: append, then the deferred Unlock, and the call returns.
AddAppend(t) ==
  /\ pc[t] = "add65"
  /\ spanProcessors' = Append(spanProcessors, arg[t])
  /\ mu' = NoThread
  /\ pc' = [pc EXCEPT ![t] = "idle"]
  /\ raced' = (raced \/ (firstStart /\ ~Snapshotted))
  /\ initHist' = [initHist EXCEPT
                    !.inLoop = @ \/ \E u \in Threads : pc[u] = "reg76"]
  /\ arg' = [arg EXCEPT ![t] = 0]
  /\ UNCHANGED <<once, localTracer, providers, tp, snap, idx, pending, caller,
                 spans, outcome, nCalls, firstStart, regBefore,
                 initBy, initRuns, lateAdd, firstDone>>
  /\ UNCHANGED <<call, storeVars, graphVars, raceVars>>

\* RegisterTelemetry() called directly (it is exported).
RegisterTelemetry(t) ==
  /\ pc[t] = "idle"
  /\ nCalls < MaxCalls
  /\ pc' = [pc EXCEPT ![t] = "once"]
  /\ caller' = [caller EXCEPT ![t] = "direct"]
  /\ nCalls' = nCalls + 1
  /\ UNCHANGED <<spanProcessors, mu, once, localTracer, providers, arg, tp, snap,
                 idx, pending, spans, outcome, firstStart,
                 regBefore, raced, initBy, initHist, initRuns, lateAdd, firstDone>>
  /\ UNCHANGED <<call, storeVars, graphVars, raceVars>>

\* Where RegisterTelemetry returns to.
ReturnSite(t) == IF caller[t] = "getTracers" THEN "get90" ELSE "idle"

\* line 71, once.Do when the initializer has not run: this goroutine runs it.
\* line 72: traceProvider := sdktrace.NewTracerProvider()
OnceDoRun(t) ==
  /\ pc[t] = "once"
  /\ once = "new"
  /\ once' = "running"
  /\ providers' = Append(providers, <<>>)
  /\ tp' = [tp EXCEPT ![t] = Len(providers) + 1]
  /\ pc' = [pc EXCEPT ![t] = "reg73"]
  /\ initBy' = caller[t]
  /\ initHist' = [initHist EXCEPT !.atStart = spanProcessors]
  /\ initRuns' = initRuns + 1
  /\ UNCHANGED <<spanProcessors, mu, localTracer, arg, snap, idx, pending, caller,
                 spans, outcome, nCalls, firstStart, regBefore,
                 raced, lateAdd, firstDone>>
  /\ UNCHANGED <<call, storeVars, graphVars, raceVars>>

\* line 71, once.Do when the initializer has completed: return at once.  While
\* another goroutine runs the initializer, once.Do blocks.
OnceDoSkip(t) ==
  /\ pc[t] = "once"
  /\ once = "done"
  /\ pc' = [pc EXCEPT ![t] = ReturnSite(t)]
  /\ caller' = [caller EXCEPT ![t] = "none"]
  /\ UNCHANGED <<spanProcessors, mu, once, localTracer, providers, arg, tp, snap,
                 idx, pending, spans, outcome, nCalls,
                 firstStart, regBefore, raced, initBy, initHist, initRuns, lateAdd, firstDone>>
  /\ UNCHANGED <<call, storeVars, graphVars, raceVars>>

\* lines 73-75: RLock; spanProcessors := localTracerConfig.spanProcessors; RUnlock.
\* The slice header (pointer, length) is copied: later appends write behind
\* that length or into a new array, so the copy keeps its elements.
Snapshot(t) ==
  /\ pc[t] = "reg73"
  /\ mu = NoThread
  /\ snap' = [snap EXCEPT ![t] = spanProcessors]
  /\ idx' = [idx EXCEPT ![t] = 1]
  /\ pending' = [pending EXCEPT ![t] = {"typ", "data"}]
  /\ pc' = [pc EXCEPT ![t] = IF Len(spanProcessors) = 0 THEN "reg79" ELSE "reg76"]
  /\ initHist' = [initHist EXCEPT !.atSnapshot = spanProcessors]
  /\ UNCHANGED <<spanProcessors, mu, once, localTracer, providers, arg, tp, caller,
                 spans, outcome, nCalls, firstStart, regBefore,
                 raced, initBy, initRuns, lateAdd, firstDone>>
  /\ UNCHANGED <<call, storeVars, graphVars, raceVars>>

\* LoopAttach walking the copied slice from its end.
LoopAttachReversed(t) ==
  /\ pc[t] = "reg76"
  /\ providers' = [providers EXCEPT
                     ![tp[t]] = Append(@, snap[t][Len(snap[t]) - idx[t] + 1])]
  /\ idx' = [idx EXCEPT ![t] = @ + 1]
  /\ pc' = [pc EXCEPT ![t] = IF idx[t] >= Len(snap[t]) THEN "reg79" ELSE "reg76"]
  /\ UNCHANGED <<spanProcessors, mu, once, localTracer, arg, tp, snap, pending,
                 caller, spans, outcome, nCalls, firstStart,
                 regBefore, raced, initBy, initHist, initRuns, lateAdd, firstDone>>
  /\ UNCHANGED <<call, storeVars, graphVars, raceVars>>

\* LoopAttach ranging over the shared list instead of the copied slice.
LoopAttachLive(t) ==
  /\ pc[t] = "reg76"
  /\ providers' = [providers EXCEPT ![tp[t]] = Append(@, spanProcessors[idx[t]])]
  /\ idx' = [idx EXCEPT ![t] = @ + 1]
  /\ pc' = [pc EXCEPT ![t] = IF idx[t] >= Len(spanProcessors) THEN "reg79" ELSE "reg76"]
  /\ UNCHANGED <<spanProcessors, mu, once, localTracer, arg, tp, snap, pending,
                 caller, spans, outcome, nCalls, firstStart,
                 regBefore, raced, initBy, initHist, initRuns, lateAdd, firstDone>>
  /\ UNCHANGED <<call, storeVars, graphVars, raceVars>>

\* lines 76-78: one iteration of the range loop,
\* traceProvider.RegisterSpanProcessor(processor).
LoopAttach(t) ==
  /\ pc[t] = "reg76"
  /\ providers' = [providers EXCEPT ![tp[t]] = Append(@, snap[t][idx[t]])]
  /\ idx' = [idx EXCEPT ![t] = @ + 1]
  /\ pc' = [pc EXCEPT ![t] = IF idx[t] >= Len(snap[t]) THEN "reg79" ELSE "reg76"]
  /\ UNCHANGED <<spanProcessors, mu, once, localTracer, arg, tp, snap, pending,
                 caller, spans, outcome, nCalls, firstStart,
                 regBefore, raced, initBy, initHist, initRuns, lateAdd, firstDone>>
  /\ UNCHANGED <<call, storeVars, graphVars, raceVars>>

\* line 79: localTracer = tracerProviderHolder{tp: traceProvider}.  tp is an
\* interface, two machine words (type, data) stored by two plain stores that
\* nothing orders for a goroutine reading them without synchronization.  After
\* the second store the initializer returns and once.Do marks it done.
StoreWord(t, w) ==
  /\ pc[t] = "reg79"
  /\ w \in pending[t]
  /\ localTracer' = IF w = "typ" THEN [localTracer EXCEPT !.typ = TRUE]
                                 ELSE [localTracer EXCEPT !.data = tp[t]]
  /\ pending' = [pending EXCEPT ![t] = @ \ {w}]
  /\ once' = IF pending[t] = {w} THEN "done" ELSE once
  /\ pc' = [pc EXCEPT ![t] = IF pending[t] = {w} THEN ReturnSite(t) ELSE "reg79"]
  /\ caller' = [caller EXCEPT ![t] = IF pending[t] = {w} THEN "none" ELSE @]
  /\ tp' = [tp EXCEPT ![t] = IF pending[t] = {w} THEN 0 ELSE @]
  /\ snap' = [snap EXCEPT ![t] = IF pending[t] = {w} THEN <<>> ELSE @]
  /\ idx' = [idx EXCEPT ![t] = IF pending[t] = {w} THEN 0 ELSE @]
  /\ UNCHANGED <<spanProcessors, mu, providers, arg, spans, outcome, nCalls,
                 firstStart, regBefore, raced, initBy, initHist,
                 initRuns, lateAdd, firstDone>>
  /\ UNCHANGED <<call, storeVars, graphVars, raceVars>>

\* StartTrace(ctx, traceName): the call begins (line 98, tracers := getTracers()).
StartTrace(t, traceName) ==
  /\ pc[t] = "idle"
  /\ nCalls < MaxCalls
  /\ pc' = [pc EXCEPT ![t] = "get87"]
  /\ arg' = [arg EXCEPT ![t] = traceName]
  /\ nCalls' = nCalls + 1
  /\ firstStart' = TRUE
  /\ regBefore' = IF firstStart THEN regBefore ELSE spanProcessors
  /\ UNCHANGED <<spanProcessors, mu, once, localTracer, providers, tp, snap, idx,
                 pending, caller, spans, outcome, raced, initBy, initHist,
                 initRuns, lateAdd, firstDone>>
  /\ UNCHANGED <<call, storeVars, graphVars, raceVars>>

\* line 87: if localTracer.tp == nil { RegisterTelemetry() }.  The comparison
\* reads the type word of the interface, outside the once and outside any lock.
getTracersCheck(t) ==
  /\ pc[t] = "get87"
  /\ pc' = [pc EXCEPT ![t] = IF localTracer.typ THEN "get90" ELSE "once"]
  /\ caller' = [caller EXCEPT ![t] = IF localTracer.typ THEN "none" ELSE "getTracers"]
  /\ UNCHANGED <<spanProcessors, mu, once, localTracer, providers, arg, tp, snap,
                 idx, pending, spans, outcome, nCalls,
                 firstStart, regBefore, raced, initBy, initHist, initRuns, lateAdd, firstDone>>
  /\ UNCHANGED <<call, storeVars, graphVars, raceVars>>

\* The span tracer.Start(ctx, traceName) returns.
NewSpan(tracer, provider, traceName, recording) ==
  [tracer |-> tracer, provider |-> provider, name |-> traceName,
   recording |-> recording, attrs |-> <<>>, ends |-> 0]

\* lines 90-93 and 99-104: localTracer.tp.Tracer(systemName) reads both words
\* of the interface.  With the data word not yet stored the method runs on a
\* nil *TracerProvider and the goroutine panics.  Otherwise one span is
\* started on each of the two tracers; the global one records only when a
\* global tracer provider is configured.
getTracersStart(t, globalSet) ==
  /\ pc[t] = "get90"
  /\ pc' = [pc EXCEPT ![t] = IF localTracer.data = 0 THEN "panicked" ELSE "started"]
  /\ spans' = [spans EXCEPT ![t] =
                 IF localTracer.data = 0 THEN <<>>
                 ELSE << NewSpan("local", localTracer.data, arg[t], TRUE),
                         NewSpan("global", 0, arg[t], globalSet) >>]
  /\ firstDone' = IF localTracer.data # 0 /\ firstDone = Nil
                    THEN Ptr(providers[localTracer.data]) ELSE firstDone
  /\ UNCHANGED <<spanProcessors, mu, once, localTracer, providers, arg, tp, snap,
                 idx, pending, caller, outcome, nCalls,
                 firstStart, regBefore, raced, initBy, initHist, initRuns, lateAdd>>
  /\ UNCHANGED <<call, storeVars, graphVars, raceVars>>

\* The caller is done with the spans of its StartTrace.
Release(t) ==
  /\ pc[t] \in {"started", "annotated"}
  /\ pc' = [pc EXCEPT ![t] = "idle"]
  /\ spans' = [spans EXCEPT ![t] = <<>>]
  /\ arg' = [arg EXCEPT ![t] = 0]
  /\ UNCHANGED <<spanProcessors, mu, once, localTracer, providers, tp, snap,
                 idx, pending, caller, nCalls,
                 firstStart, regBefore, raced, initBy, initHist, initRuns, lateAdd, firstDone>>
  /\ call' = [call EXCEPT ![t] = NoCall]
  /\ outcome' = [outcome EXCEPT ![t] = "none"]
  /\ UNCHANGED <<storeVars, graphVars, raceVars>>

RegNext ==
  \E t \in Threads :
    \/ \E p \in Procs : AddSpanProcessor(t, p)
    \/ AddLock(t)
    \/ AddAppend(t)
    \/ RegisterTelemetry(t)
    \/ OnceDoRun(t)
    \/ OnceDoSkip(t)
    \/ Snapshot(t)
    \/ LoopAttach(t)
    \/ \E w \in {"typ", "data"} : StoreWord(t, w)
    \/ \E n \in TraceNames : StartTrace(t, n)
    \/ getTracersCheck(t)
    \/ \E g \in BOOLEAN : getTracersStart(t, g)
    \/ Release(t)

\* Concurrent goroutines registering processors and starting traces.
SpecRegistry == Init /\ [][RegNext]_vars

(***************************************************************************)
(* encoding/json as safeSerialize uses it.  A Go value is first seen as a  *)
(* tree (string, number, null, object, array, or a value json.Marshal      *)
(* rejects, such as a channel or a func inside a map[string]any), then     *)
(* written out as text.                                                    *)
(***************************************************************************)
JStr(x) == [k |-> "str", s |-> x, f |-> <<>>]
JNum(x) == [k |-> "num", s |-> x, f |-> <<>>]
JNull == [k |-> "null", s |-> "", f |-> <<>>]
JBad == [k |-> "bad", s |-> "", f |-> <<>>]
\* an object: a sequence of <<key, tree>>; an array: a sequence of trees
JObj(fields) == [k |-> "obj", s |-> "", f |-> fields]
JArr(elems) == [k |-> "arr", s |-> "", f |-> elems]

RECURSIVE Unsupported(_)
Unsupported(v) ==
  CASE v.k = "bad" -> TRUE
    [] v.k = "obj" -> \E i \in 1..Len(v.f) : Unsupported(v.f[i][2])
    [] v.k = "arr" -> \E i \in 1..Len(v.f) : Unsupported(v.f[i])
    [] OTHER -> FALSE

Quote(x) == "\"" \o x \o "\""

RECURSIVE Encode(_)
RECURSIVE EncodeFields(_, _)
RECURSIVE EncodeElems(_, _)
EncodeFields(fs, i) ==
  IF i > Len(fs) THEN ""
  ELSE (IF i > 1 THEN "," ELSE "") \o Quote(fs[i][1]) \o ":" \o Encode(fs[i][2])
       \o EncodeFields(fs, i + 1)
EncodeElems(es, i) ==
  IF i > Len(es) THEN ""
  ELSE (IF i > 1 THEN "," ELSE "") \o Encode(es[i]) \o EncodeElems(es, i + 1)
Encode(v) ==
  CASE v.k = "str" -> Quote(v.s)
    [] v.k = "num" -> v.s
    [] v.k = "null" -> "null"
    [] v.k = "obj" -> "{" \o EncodeFields(v.f, 1) \o "}"
    [] v.k = "arr" -> "[" \o EncodeElems(v.f, 1) \o "]"

\* func safeSerialize(obj any) string
safeSerialize(obj) ==
  IF Unsupported(obj) THEN "<not serializable>" ELSE Encode(obj)

\* The fields an encoder writes: `omitempty` fields are left out when empty.
Present(candidates) == SelectSeq(candidates, LAMBDA c : c[3])
Fields(candidates) == [i \in 1..Len(Present(candidates)) |->
                         <<Present(candidates)[i][1], Present(candidates)[i][2]>>]

\* A map[string]any (function arguments, a function response): nil is null.
MapTree(m) == IF m = Nil THEN JNull ELSE JObj(Deref(m))

FunctionCallTree(fc) ==
  JObj(Fields(<< <<"id", JStr(fc.ID), fc.ID # "">>,
                 <<"args", MapTree(fc.Args), fc.Args # Nil>>,
                 <<"name", JStr(fc.Name), fc.Name # "">> >>))

FunctionResponseTree(fr) ==
  JObj(Fields(<< <<"id", JStr(fr.ID), fr.ID # "">>,
                 <<"name", JStr(fr.Name), fr.Name # "">>,
                 <<"response", MapTree(fr.Response), fr.Response # Nil>> >>))

PartTree(part) ==
  JObj(Fields(<< <<"inlineData", JObj(<< <<"data", JStr("blob")>> >>),
                   part.InlineData # Nil>>,
                 <<"functionCall",
                   IF part.FunctionCall = Nil THEN JNull
                   ELSE FunctionCallTree(Deref(part.FunctionCall)),
                   part.FunctionCall # Nil>>,
                 <<"functionResponse",
                   IF part.FunctionResponse = Nil THEN JNull
                   ELSE FunctionResponseTree(Deref(part.FunctionResponse)),
                   part.FunctionResponse # Nil>>,
                 <<"text", JStr(part.Text), part.Text # "">> >>))

ContentTree(content) ==
  JObj(Fields(<< <<"parts", JArr([i \in 1..Len(content.Parts) |->
                                    PartTree(content.Parts[i])]),
                   Len(content.Parts) > 0>>,
                 <<"role", JStr(content.Role), content.Role # "">> >>))

ContentPtrTree(c) == IF c = Nil THEN JNull ELSE ContentTree(Deref(c))

LLMResponseTree(r) ==
  IF r = Nil THEN JNull
  ELSE JObj(<< <<"Content", ContentPtrTree(Deref(r).Content)>> >>)

EventTree(ev) ==
  JObj(<< <<"ID", JStr(ev.ID)>>,
          <<"InvocationID", JStr(ev.InvocationID)>>,
          <<"Author", JStr(ev.Author)>>,
          <<"LLMResponse", LLMResponseTree(ev.LLMResponse)>> >>)

ConfigTree(c) ==
  IF c = Nil THEN JNull
  ELSE JObj(Fields(<< <<"topP", IF Deref(c).TopP = Nil THEN JNull
                                ELSE JNum(Deref(Deref(c).TopP)),
                        Deref(c).TopP # Nil>>,
                      <<"maxOutputTokens", JNum(ToString(Deref(c).MaxOutputTokens)),
                        Deref(c).MaxOutputTokens # 0>> >>))

\* func llmRequestToTrace(llmRequest *model.LLMRequest) map[string]any:
\* config, model and the contents with the InlineData parts filtered out.
\* (json.Marshal writes the keys of a map sorted.)
llmRequestToTrace(llmRequest) ==
  LET filtered(content) ==
        [Role |-> content.Role,
         Parts |-> SelectSeq(content.Parts, LAMBDA part : part.InlineData = Nil)]
  IN JObj(<< <<"config", ConfigTree(llmRequest.Config)>>,
             <<"content", JArr([i \in 1..Len(llmRequest.Contents) |->
                                  ContentTree(filtered(llmRequest.Contents[i]))])>>,
             <<"model", JStr(llmRequest.Model)>> >>)

(***************************************************************************)
(* internal/telemetry: the annotators.                                     *)
(***************************************************************************)
genAiOperationName == "gen_ai.operation.name"
genAiToolDescription == "gen_ai.tool.description"
genAiToolName == "gen_ai.tool.name"
genAiToolCallID == "gen_ai.tool.call.id"

\* attribute.String / attribute.Float64 / attribute.Int: a typed key-value.
\* The value of a number is kept as its decimal text.
attributeString(key, x) == [Key |-> key, Value |-> [Type |-> "STRING", v |-> x]]
attributeFloat64(key, x) == [Key |-> key, Value |-> [Type |-> "FLOAT64", v |-> x]]
attributeInt(key, x) == [Key |-> key, Value |-> [Type |-> "INT64", v |-> ToString(x)]]

\* span.SetAttributes(attributes...) then span.End(), on one span handle.
SetAttributes(span, attributes) == [span EXCEPT !.attrs = @ \o attributes]
End(span) == [span EXCEPT !.ends = @ + 1]

\* for _, span := range spans { ...; span.SetAttributes(attributes...); span.End() }
\* with a loop body that does not panic.
AnnotateAll(ss, attributes) ==
  [i \in 1..Len(ss) |-> End(SetAttributes(ss[i], attributes))]

Returned(ss) == [spans |-> ss, outcome |-> "returned"]
\* A nil pointer dereference while the attributes of the first span are
\* built: nothing has been set or ended yet.
Panicked(ss) == [spans |-> ss, outcome |-> "panic"]

\* func TraceMergedToolCalls(spans []trace.Span, fnResponseEvent *session.Event)
TraceMergedToolCalls(ss, fnResponseEvent) ==
  IF fnResponseEvent = Nil THEN Returned(ss)
  ELSE LET ev == Deref(fnResponseEvent)
           attributes == <<
             attributeString(genAiOperationName, "execute_tool"),
             attributeString(genAiToolName, "(merged tools)"),
             attributeString(genAiToolDescription, "(merged tools)"),
             attributeString("gcp.vertex.agent.llm_request", "{}"),
             attributeString("gcp.vertex.agent.llm_request", "{}"),
             attributeString("gcp.vertex.agent.tool_call_args", "N/A"),
             attributeString("gcp.vertex.agent.event_id", ev.ID),
             attributeString("gcp.vertex.agent.tool_response", safeSerialize(EventTree(ev))) >>
       IN Returned(AnnotateAll(ss, attributes))

\* func TraceToolCall(spans, tool, fnArgs, fnResponseEvent)
TraceToolCall(ss, tool, fnArgs, fnResponseEvent) ==
  IF fnResponseEvent = Nil \/ Len(ss) = 0 THEN Returned(ss)
  ELSE LET ev == Deref(fnResponseEvent) IN
    \* line 153: fnResponseEvent.LLMResponse.Content.Parts
    IF ev.LLMResponse = Nil THEN Panicked(ss)
    ELSE IF Deref(ev.LLMResponse).Content = Nil THEN Panicked(ss)
    ELSE
      LET responseParts == Deref(Deref(ev.LLMResponse).Content).Parts
          functionResponse ==
            IF Len(responseParts) > 0 THEN responseParts[1].FunctionResponse ELSE Nil
          toolCallID ==
            IF functionResponse # Nil /\ Deref(functionResponse).ID # ""
              THEN Deref(functionResponse).ID ELSE "<not specified>"
          toolResponse ==
            IF functionResponse # Nil /\ Deref(functionResponse).Response # Nil
              THEN safeSerialize(MapTree(Deref(functionResponse).Response))
              ELSE "<not specified>"
          attributes == <<
            attributeString(genAiOperationName, "execute_tool"),
            attributeString(genAiToolName, tool.Name),
            attributeString(genAiToolDescription, tool.Description),
            attributeString("gcp.vertex.agent.llm_request", "{}"),
            attributeString("gcp.vertex.agent.llm_request", "{}"),
            attributeString("gcp.vertex.agent.tool_call_args", safeSerialize(MapTree(fnArgs))),
            attributeString("gcp.vertex.agent.event_id", ev.ID),
            attributeString(genAiToolCallID, toolCallID),
            attributeString("gcp.vertex.agent.tool_response", toolResponse) >>
      IN Returned(AnnotateAll(ss, attributes))

\* func TraceLLMCall(spans, agentCtx, llmRequest, event); sessionID is
\* agentCtx.Session().ID().
TraceLLMCall(ss, sessionID, llmRequest, event) ==
  IF Len(ss) = 0 THEN Returned(ss)
  \* line 181: event.InvocationID
  ELSE IF event = Nil THEN Panicked(ss)
  \* line 188: llmRequest.Config.TopP
  ELSE IF llmRequest.Config = Nil THEN Panicked(ss)
  ELSE
    LET ev == Deref(event)
        config == Deref(llmRequest.Config)
        base == <<
          attributeString("gen_ai.system", systemName),
          attributeString("gen_ai.request.model", llmRequest.Model),
          attributeString("gcp.vertex.agent.invocation_id", ev.InvocationID),
          attributeString("gcp.vertex.agent.session_id", sessionID),
          attributeString("gcp.vertex.agent.event_id", ev.ID),
          attributeString("gcp.vertex.agent.llm_request",
                 safeSerialize(llmRequestToTrace(llmRequest))),
          attributeString("gcp.vertex.agent.llm_response",
                 safeSerialize(LLMResponseTree(ev.LLMResponse))) >>
        topP == IF config.TopP # Nil
                  THEN <<attributeFloat64("gen_ai.request.top_p", Deref(config.TopP))>>
                  ELSE <<>>
        maxTokens == IF config.MaxOutputTokens # 0
                       THEN <<attributeInt("gen_ai.request.max_tokens", config.MaxOutputTokens)>>
                       ELSE <<>>
    IN Returned(AnnotateAll(ss, base \o topP \o maxTokens))

(***************************************************************************)
(* The values the annotators are called with.                              *)
(***************************************************************************)
TextPart == [Text |-> "hi", InlineData |-> Nil, FunctionCall |-> Nil,
             FunctionResponse |-> Nil]
InlinePart == [Text |-> "", InlineData |-> Ptr("blob"), FunctionCall |-> Nil,
               FunctionResponse |-> Nil]
FunctionResponsePart(id, name, response) ==
  [Text |-> "", InlineData |-> Nil, FunctionCall |-> Nil,
   FunctionResponse |-> Ptr([ID |-> id, Name |-> name, Response |-> response])]
FunctionCallPart(id, name) ==
  [Text |-> "", InlineData |-> Nil, FunctionResponse |-> Nil,
   FunctionCall |-> Ptr([ID |-> id, Name |-> name, Args |-> Nil])]

\* map[string]any values
OkMap == Ptr(<< <<"result", JStr("ok")>> >>)
EmptyMap == Ptr(<<>>)
ChanMap == Ptr(<< <<"ch", JBad>> >>)

TracePartLists ==
  { <<>>,
    <<TextPart>>,
    <<FunctionResponsePart("call1", "search", OkMap)>>,
    <<FunctionResponsePart("", "search", Nil)>>,
    <<FunctionResponsePart("call2", "search", ChanMap)>>,
    <<TextPart, FunctionResponsePart("call1", "search", OkMap)>> }

\* *model.LLMResponse: nil, without content, or with content
TraceResponses ==
  {Nil, Ptr([Content |-> Nil])}
    \cup {Ptr([Content |-> Ptr([Role |-> "model", Parts |-> ps])]) : ps \in TracePartLists}

\* *session.Event: nil or an event
TraceEvents ==
  {Nil} \cup {Ptr([ID |-> "e1", InvocationID |-> "inv1", Author |-> "agent_a",
                   LLMResponse |-> r]) : r \in TraceResponses}

\* *genai.GenerateContentConfig: nil, no sampling parameter, or both
TraceConfigs ==
  {Nil, Ptr([TopP |-> Nil, MaxOutputTokens |-> 0]),
   Ptr([TopP |-> Ptr("0.9"), MaxOutputTokens |-> 128])}

TraceContents ==
  {<<>>, <<[Role |-> "user", Parts |-> <<InlinePart, TextPart>>]>>}

\* *model.LLMRequest
TraceRequests ==
  {[Model |-> "gemini", Config |-> c, Contents |-> cs] :
     c \in TraceConfigs, cs \in TraceContents}

TraceTools == {[Name |-> "search", Description |-> "web search"]}
TraceArgs == {Nil, EmptyMap, OkMap, ChanMap}

\* An annotator has run on the spans of goroutine t with result r.
Annotated(t, r, fn, event, request) ==
  /\ pc[t] = "started"
  /\ spans' = [spans EXCEPT ![t] = r.spans]
  /\ outcome' = [outcome EXCEPT ![t] = r.outcome]
  /\ call' = [call EXCEPT ![t] = [fn |-> fn, event |-> event, request |-> request]]
  /\ pc' = [pc EXCEPT ![t] = IF r.outcome = "panic" THEN "panicked" ELSE "annotated"]
  /\ UNCHANGED <<spanProcessors, mu, once, localTracer, providers, arg, tp, snap,
                 idx, pending, caller, nCalls, firstStart,
                 regBefore, raced, initBy, initHist, initRuns, lateAdd, firstDone>>
  /\ UNCHANGED <<storeVars, graphVars, raceVars>>

CallTraceLLMCall(t, sessionID, llmRequest, event) ==
  Annotated(t, TraceLLMCall(spans[t], sessionID, llmRequest, event),
            "TraceLLMCall", event, Ptr(llmRequest))

CallTraceToolCall(t, tool, fnArgs, fnResponseEvent) ==
  Annotated(t, TraceToolCall(spans[t], tool, fnArgs, fnResponseEvent),
            "TraceToolCall", fnResponseEvent, Nil)

CallTraceMergedToolCalls(t, fnResponseEvent) ==
  Annotated(t, TraceMergedToolCalls(spans[t], fnResponseEvent),
            "TraceMergedToolCalls", fnResponseEvent, Nil)

\* One goroutine registers, starts traces and annotates them.
TraceNext ==
  \E t \in {1} :
    \/ \E p \in Procs : AddSpanProcessor(t, p)
    \/ AddLock(t)
    \/ AddAppend(t)
    \/ RegisterTelemetry(t)
    \/ OnceDoRun(t)
    \/ OnceDoSkip(t)
    \/ Snapshot(t)
    \/ LoopAttach(t)
    \/ \E w \in {"typ", "data"} : StoreWord(t, w)
    \/ \E n \in TraceNames : StartTrace(t, n)
    \/ getTracersCheck(t)
    \/ \E g \in BOOLEAN : getTracersStart(t, g)
    \/ \E r \in TraceRequests, e \in TraceEvents : CallTraceLLMCall(t, "s1", r, e)
    \/ \E tool \in TraceTools, a \in TraceArgs, e \in TraceEvents :
         CallTraceToolCall(t, tool, a, e)
    \/ \E e \in TraceEvents : CallTraceMergedToolCalls(t, e)
    \/ Release(t)

SpecTrace == Init /\ [][TraceNext]_vars

\* The goroutines on which an annotator has run.
AnnotatorRan(t) == call[t].fn # "none"

\* C5: an annotator called with a nil result event returns normally and has
\* set no attribute and ended no span.
C5_NilEventNoOp ==
  \A t \in Threads :
    (AnnotatorRan(t) /\ call[t].event = Nil) =>
       /\ outcome[t] = "returned"
       /\ \A i \in 1..Len(spans[t]) : spans[t][i].attrs = <<>> /\ spans[t][i].ends = 0

\* C6: an annotator called with a non-nil result event on the two spans of a
\* StartTrace has, when it finishes, set the same non-empty attribute list on
\* both spans and ended each of them once.
C6_BothSpansAnnotatedAndEnded ==
  \A t \in Threads :
    (AnnotatorRan(t) /\ call[t].event # Nil) =>
       /\ outcome[t] = "returned"
       /\ Len(spans[t]) = 2
       /\ spans[t][1].attrs = spans[t][2].attrs
       /\ \A i \in 1..2 : spans[t][i].attrs # <<>> /\ spans[t][i].ends = 1

(***************************************************************************)
(* cmd/restapi/services: APIServerSpanExporter, the debug trace store.     *)
(***************************************************************************)
\* spans exported in one behaviour
MaxSpans == 3

eventIDKey == "gcp.vertex.agent.event_id"

\* strings.HasPrefix(s, prefix)
HasPrefix(str, prefix) ==
  Len(str) >= Len(prefix) /\ SubSeq(str, 1, Len(prefix)) = prefix

\* Qualifies without the name filter.
QualifiesAnyName(name) == Len(name) >= 0

\* line 47: the span names ExportSpans keeps
Qualifies(name) ==
  name = "call_llm" \/ name = "send_data" \/ HasPrefix(name, "execute_tool")

\* AsString giving the text of a value of any type, as Emit does.
AsStringEmit(value) == value.v

\* attribute.Value.AsString(): the string of a STRING value, "" for any other type
AsString(value) == IF value.Type = "STRING" THEN value.v ELSE ""

\* TraceID.String() / SpanID.String(): the bytes in lower-case hexadecimal
HexDigit(n) == SubSeq("0123456789abcdef", n + 1, n + 1)
RECURSIVE Hex(_)
Hex(bytes) ==
  IF Len(bytes) = 0 THEN ""
  ELSE HexDigit(Head(bytes) \div 16) \o HexDigit(Head(bytes) % 16) \o Hex(Tail(bytes))

\* m[key] = value on a Go map
MapPut(m, key, value) ==
  [x \in DOMAIN m \cup {key} |-> IF x = key THEN value ELSE m[x]]

\* lines 49-53: attributes[key] = attribute.Value.AsString(), attribute by attribute
RECURSIVE CopyAttributes(_, _, _)
CopyAttributes(attributes, spanAttributes, i) ==
  IF i > Len(spanAttributes) THEN attributes
  ELSE CopyAttributes(MapPut(attributes, spanAttributes[i].Key,
                             AsString(spanAttributes[i].Value)),
                      spanAttributes, i + 1)

\* SpanAttributeMap with the span's attributes copied after the identifiers.
SpanAttributeMapIdsFirst(span) ==
  CopyAttributes(MapPut(MapPut(<<>>, "trace_id", Hex(span.TraceID)),
                        "span_id", Hex(span.SpanID)),
                 span.Attributes, 1)

\* lines 48-55: the attribute map built for one span
SpanAttributeMap(span) ==
  MapPut(MapPut(CopyAttributes(<<>>, span.Attributes, 1),
                "trace_id", Hex(span.TraceID)),
         "span_id", Hex(span.SpanID))

\* ExportOne updating the map already stored under the event id.
ExportOneMerging(dict, span) ==
  IF Qualifies(span.Name)
    THEN LET attributes == SpanAttributeMap(span)
         IN IF eventIDKey \in DOMAIN attributes
              THEN LET id == attributes[eventIDKey]
                       old == IF id \in DOMAIN dict THEN dict[id] ELSE <<>>
                   IN MapPut(dict, id,
                             [x \in DOMAIN old \cup DOMAIN attributes |->
                                IF x \in DOMAIN attributes THEN attributes[x]
                                ELSE old[x]])
              ELSE dict
    ELSE dict

\* lines 46-60: the loop body on one span
ExportOne(dict, span) ==
  IF Qualifies(span.Name)
    THEN LET attributes == SpanAttributeMap(span)
         IN IF eventIDKey \in DOMAIN attributes
              THEN MapPut(dict, attributes[eventIDKey], attributes)
              ELSE dict
    ELSE dict

RECURSIVE ExportLoop(_, _, _)
ExportLoop(dict, batch, i) ==
  IF i > Len(batch) THEN dict
  ELSE ExportLoop(ExportOne(dict, batch[i]), batch, i + 1)

\* ExportSpans that stores nothing once Shutdown has been called.
ExportSpansUntilShutdown(batch) ==
  /\ Len(exported) + Len(batch) <= MaxSpans
  /\ traceDict' = IF isShutdown THEN traceDict ELSE ExportLoop(traceDict, batch, 1)
  /\ exported' = exported \o batch
  /\ UNCHANGED <<isShutdown, exportedAtShutdown, traceReq, traceResp, regVars,
                 graphVars, raceVars>>

\* func (s *APIServerSpanExporter) ExportSpans(ctx, spans) error
ExportSpans(batch) ==
  /\ Len(exported) + Len(batch) <= MaxSpans
  /\ traceDict' = ExportLoop(traceDict, batch, 1)
  /\ exported' = exported \o batch
  /\ UNCHANGED <<isShutdown, exportedAtShutdown, traceReq, traceResp, regVars,
                 graphVars, raceVars>>

\* func (s *APIServerSpanExporter) Shutdown(ctx) error: returns nil
Shutdown ==
  /\ ~isShutdown
  /\ isShutdown' = TRUE
  /\ exportedAtShutdown' = Len(exported)
  /\ UNCHANGED <<traceDict, exported, traceReq, traceResp, regVars,
                 graphVars, raceVars>>

\* func (s *APIServerSpanExporter) GetTraceDict(): the live map
GetTraceDict == traceDict

\* TraceDict looking the id up before testing that it is empty.
TraceDictLookupFirst(eventID) ==
  /\ traceReq' = eventID
  /\ traceResp' =
       IF eventID \notin DOMAIN GetTraceDict
         THEN [status |-> 404, body |-> "event not found: " \o eventID]
       ELSE IF eventID = ""
         THEN [status |-> 400, body |-> "event_id parameter is required"]
       ELSE [status |-> 200, body |-> GetTraceDict[eventID]]
  /\ UNCHANGED <<traceDict, exported, isShutdown, exportedAtShutdown, regVars,
                 graphVars, raceVars>>

\* func (c *DebugAPIController) TraceDict(rw, req)
TraceDict(eventID) ==
  /\ traceReq' = eventID
  /\ traceResp' =
       IF eventID = ""
         THEN [status |-> 400, body |-> "event_id parameter is required"]
       ELSE IF eventID \notin DOMAIN GetTraceDict
         THEN [status |-> 404, body |-> "event not found: " \o eventID]
       ELSE [status |-> 200, body |-> GetTraceDict[eventID]]
  /\ UNCHANGED <<traceDict, exported, isShutdown, exportedAtShutdown, regVars,
                 graphVars, raceVars>>

\* The spans handed to the exporter.
TraceID1 == <<0, 0, 0, 0, 0, 0, 0, 0, 0, 0, 0, 0, 0, 0, 0, 1>>
TraceID2 == <<171, 205, 0, 0, 0, 0, 0, 0, 0, 0, 0, 0, 0, 0, 255, 16>>
SpanID1 == <<0, 0, 0, 0, 0, 0, 0, 1>>
SpanID2 == <<0, 0, 0, 0, 0, 0, 10, 2>>

ReadOnlySpan(name, attributes, traceID, spanID) ==
  [Name |-> name, Attributes |-> attributes, TraceID |-> traceID, SpanID |-> spanID]

ExportableSpans ==
  { ReadOnlySpan("call_llm",
                 <<attributeString(eventIDKey, "e1"), attributeString("foo", "bar"),
                   attributeString("foo", "baz")>>, TraceID1, SpanID1),
    ReadOnlySpan("execute_tool search",
                 <<attributeString(eventIDKey, "e1"),
                   attributeFloat64("gen_ai.request.top_p", "0.9")>>, TraceID2, SpanID2),
    ReadOnlySpan("send_data",
                 <<attributeString("trace_id", "mine"), attributeString(eventIDKey, "e2")>>,
                 TraceID1, SpanID2),
    ReadOnlySpan("invoke_agent",
                 <<attributeString(eventIDKey, "e3")>>, TraceID2, SpanID1),
    ReadOnlySpan("call_llm",
                 <<attributeString("foo", "bar")>>, TraceID2, SpanID1),
    ReadOnlySpan("execute_tool",
                 <<attributeInt(eventIDKey, 7)>>, TraceID1, SpanID1) }

\* the batches of at most n spans
Batches(n) ==
  UNION {[1..k -> ExportableSpans] : k \in 0..n}

TraceRequestIDs == {"", "e1", "e2", "e3"}

StoreNext ==
  \/ \E batch \in Batches(MaxSpans - Len(exported)) : ExportSpans(batch)
  \/ Shutdown
  \/ \E eventID \in TraceRequestIDs : TraceDict(eventID)

\* The exporter receiving batches while the debug handler is asked for traces.
SpecStore == Init /\ [][StoreNext]_vars

(***************************************************************************)
(* ExportSpans and TraceDict as two goroutines.  Neither takes a lock: the *)
(* write of line 57 of the exporter and the read of line 52 of the handler *)
(* act on the same Go map and each takes time.                             *)
(***************************************************************************)
\* The span the range loop of ExportSpans is at.
CurrentSpan == exportBatch[exportIdx]

\* lines 47-56: the loop body reaches s.traceDict[eventID] = attributes
ReachesMapWrite(span) ==
  Qualifies(span.Name) /\ eventIDKey \in DOMAIN SpanAttributeMap(span)

\* lines 52-57 of TraceDict on the map as the read finds it
LookupAnswer(dict, eventID) ==
  IF eventID \notin DOMAIN dict
    THEN [status |-> 404, body |-> "event not found: " \o eventID]
    ELSE [status |-> 200, body |-> dict[eventID]]

\* The Go runtime ends the program when a map access finds the map being
\* written.
FatalError ==
  [status |-> 0, body |-> "fatal error: concurrent map read and map write"]

\* What a finishing map read can give.  A read that shared no moment with a
\* write gives the answer of the map.  One that did is a data race: the
\* program is ended, or the read sees the map without or with the write.
ReadOutcomes ==
  IF ~readRaced THEN {LookupAnswer(traceDict, traceReq)}
  ELSE {FatalError, LookupAnswer(traceDict, traceReq)}
         \cup (IF exporterPc = "writing"
                 THEN {LookupAnswer(ExportOne(traceDict, CurrentSpan), traceReq)}
                 ELSE {})

\* A call of ExportSpans begins: line 46 with the first span.
ExportSpansCall(batch) ==
  /\ exporterPc = "idle"
  /\ handlerPc # "crashed"
  /\ Len(exported) + Len(batch) <= MaxSpans
  /\ exporterPc' = "range"
  /\ exportBatch' = batch
  /\ exportIdx' = 1
  /\ exported' = exported \o batch
  /\ UNCHANGED <<traceDict, isShutdown, exportedAtShutdown, traceReq, traceResp,
                 handlerPc, readRaced, regVars, graphVars>>

\* ExportSpansRange that waits for a map read in progress to finish.
ExportSpansRangeLocked ==
  /\ exporterPc = "range"
  /\ ~(exportIdx <= Len(exportBatch) /\ ReachesMapWrite(CurrentSpan)
       /\ handlerPc = "reading")
  /\ exporterPc' = IF exportIdx > Len(exportBatch) THEN "idle"
                   ELSE IF ReachesMapWrite(CurrentSpan) THEN "writing"
                   ELSE "range"
  /\ exportIdx' = IF exportIdx > Len(exportBatch) THEN 1
                  ELSE IF ReachesMapWrite(CurrentSpan) THEN exportIdx
                  ELSE exportIdx + 1
  /\ exportBatch' = IF exportIdx > Len(exportBatch) THEN <<>> ELSE exportBatch
  /\ readRaced' = readRaced
  /\ UNCHANGED <<storeVars, handlerPc, regVars, graphVars>>

\* lines 46-56 for one span: the loop ends and ExportSpans returns, the span
\* is passed over, or the map write of line 57 begins.
ExportSpansRange ==
  /\ exporterPc = "range"
  /\ exporterPc' = IF exportIdx > Len(exportBatch) THEN "idle"
                   ELSE IF ReachesMapWrite(CurrentSpan) THEN "writing"
                   ELSE "range"
  /\ exportIdx' = IF exportIdx > Len(exportBatch) THEN 1
                  ELSE IF ReachesMapWrite(CurrentSpan) THEN exportIdx
                  ELSE exportIdx + 1
  /\ exportBatch' = IF exportIdx > Len(exportBatch) THEN <<>> ELSE exportBatch
  /\ readRaced' = IF exportIdx <= Len(exportBatch) /\ ReachesMapWrite(CurrentSpan)
                     /\ handlerPc = "reading"
                    THEN TRUE ELSE readRaced
  /\ UNCHANGED <<storeVars, handlerPc, regVars, graphVars>>

\* line 57: the map write finishes.
ExportSpansWrite ==
  /\ exporterPc = "writing"
  /\ traceDict' = ExportOne(traceDict, CurrentSpan)
  /\ exporterPc' = "range"
  /\ exportIdx' = exportIdx + 1
  /\ UNCHANGED <<exported, isShutdown, exportedAtShutdown, traceReq, traceResp,
                 exportBatch, handlerPc, readRaced, regVars, graphVars>>

\* lines 44-52 of TraceDict: an empty event_id is answered at once; for any
\* other the read of the map GetTraceDict returned begins.
TraceDictCall(eventID) ==
  /\ handlerPc = "idle"
  /\ traceReq' = eventID
  /\ traceResp' =
       IF eventID = ""
         THEN [status |-> 400, body |-> "event_id parameter is required"]
         ELSE NoResponse
  /\ handlerPc' = IF eventID = "" THEN "idle" ELSE "reading"
  /\ readRaced' = (eventID # "" /\ exporterPc = "writing")
  /\ UNCHANGED <<traceDict, exported, isShutdown, exportedAtShutdown, exporterPc,
                 exportBatch, exportIdx, regVars, graphVars>>

\* lines 52-57 of TraceDict: the map read finishes and the request is
\* answered, or the runtime ends the program.
TraceDictRead ==
  /\ handlerPc = "reading"
  /\ \E answer \in ReadOutcomes :
       /\ traceResp' = answer
       /\ handlerPc' = IF answer = FatalError THEN "crashed" ELSE "idle"
       /\ exporterPc' = IF answer = FatalError THEN "crashed" ELSE exporterPc
  /\ readRaced' = FALSE
  /\ UNCHANGED <<traceDict, exported, isShutdown, exportedAtShutdown, traceReq,
                 exportBatch, exportIdx, regVars, graphVars>>

\* The spans the exporting goroutine is handed.
RaceSpans ==
  {span \in ExportableSpans :
     /\ eventIDKey \in DOMAIN SpanAttributeMap(span)
     /\ span.Name \in {"call_llm", "send_data", "invoke_agent"}}

RaceBatches(n) == UNION {[1..k -> RaceSpans] : k \in 0..n}

RaceNext ==
  \/ \E batch \in RaceBatches(MaxSpans - Len(exported)) : ExportSpansCall(batch)
  \/ ExportSpansRange
  \/ ExportSpansWrite
  \/ \E eventID \in TraceRequestIDs : TraceDictCall(eventID)
  \/ TraceDictRead

\* One goroutine exporting and one answering trace requests, step by step.
SpecRace == Init /\ [][RaceNext]_vars


(***************************************************************************)
(* Properties of the trace store, stated over the spans exported so far.   *)
(***************************************************************************)
AttributeKeys(span) == {span.Attributes[i].Key : i \in 1..Len(span.Attributes)}

\* The value a span carries under a key: that of its last attribute with the key.
LastValue(span, key) ==
  LET at == {i \in 1..Len(span.Attributes) : span.Attributes[i].Key = key}
  IN span.Attributes[CHOOSE i \in at : \A j \in at : j <= i].Value

NameKept(name) ==
  name \in {"call_llm", "send_data"} \/ HasPrefix(name, "execute_tool")

\* The spans of history h, at positions lo..hi, that are kept by name, carry
\* an event-id attribute and give the store key k.  The key is the string
\* the exporter reads from the attribute (AsString).
SourcesOf(h, lo, hi, k) ==
  {i \in lo..hi : /\ NameKept(h[i].Name)
                  /\ eventIDKey \in AttributeKeys(h[i])
                  /\ AsString(LastValue(h[i], eventIDKey)) = k}

\* The spans of h at lo..hi that are kept by name and carry an event id.
StorableIn(h, lo, hi) ==
  {i \in lo..hi : NameKept(h[i].Name) /\ eventIDKey \in AttributeKeys(h[i])}

Newest(indices) == CHOOSE i \in indices : \A j \in indices : j <= i

\* The attribute map a span alone gives.
MapOfSpanAlone(span) ==
  [x \in AttributeKeys(span) \cup {"trace_id", "span_id"} |->
     IF x = "trace_id" THEN Hex(span.TraceID)
     ELSE IF x = "span_id" THEN Hex(span.SpanID)
     ELSE AsString(LastValue(span, x))]

\* C7: every key of the trace store is the event id of an exported span
\* whose name is "call_llm", "send_data" or begins with "execute_tool" and
\* which carries the event-id attribute; and an export batch with no such
\* span leaves the store as it was.
C7_KeysFromKeptSpansWithEventID ==
  [][ /\ \A k \in DOMAIN traceDict' : SourcesOf(exported', 1, Len(exported'), k) # {}
      /\ StorableIn(exported', Len(exported) + 1, Len(exported')) = {}
           => traceDict' = traceDict ]_vars

\* A span of another name carrying an event id and a kept span without an
\* event id have been exported, and neither made an entry.
C7_Witness ==
  /\ \E i \in 1..Len(exported) :
        /\ exported[i].Name = "invoke_agent"
        /\ eventIDKey \in AttributeKeys(exported[i])
        /\ AsString(LastValue(exported[i], eventIDKey)) \notin DOMAIN traceDict
  /\ \E i \in 1..Len(exported) :
        exported[i].Name = "call_llm" /\ eventIDKey \notin AttributeKeys(exported[i])
  /\ "e1" \in DOMAIN traceDict

\* C8: after an export batch, the entry of every event id the batch stores
\* is the map of the newest span of the batch with that id, alone, and every
\* other entry is what it was.
C8_LastWriteWins ==
  [][ \A k \in DOMAIN traceDict' :
        LET new == SourcesOf(exported', Len(exported) + 1, Len(exported'), k)
        IN IF new # {}
             THEN traceDict'[k] = MapOfSpanAlone(exported'[Newest(new)])
             ELSE k \in DOMAIN traceDict /\ traceDict'[k] = traceDict[k] ]_vars

\* An event id was exported twice, first with the attribute "foo", and the
\* stored map has no "foo".
C8_Witness ==
  /\ "e1" \in DOMAIN traceDict
  /\ \E i, j \in SourcesOf(exported, 1, Len(exported), "e1") :
        /\ i < j
        /\ "foo" \in AttributeKeys(exported[i])
        /\ "foo" \notin AttributeKeys(exported[j])
  /\ "foo" \notin DOMAIN traceDict["e1"]

\* C9: every stored map has as keys the attribute keys of one exported span
\* with that event id together with trace_id and span_id, and under
\* trace_id and span_id the identifiers of that span.
C9_StoredMapKeys ==
  \A k \in DOMAIN traceDict :
    \E i \in SourcesOf(exported, 1, Len(exported), k) :
       /\ DOMAIN traceDict[k] = AttributeKeys(exported[i]) \cup {"trace_id", "span_id"}
       /\ traceDict[k]["trace_id"] = Hex(exported[i].TraceID)
       /\ traceDict[k]["span_id"] = Hex(exported[i].SpanID)

\* The span with an attribute named trace_id is stored with the trace id of
\* its context.
C9_Witness ==
  /\ "e2" \in DOMAIN traceDict
  /\ traceDict["e2"]["trace_id"] = "00000000000000000000000000000001"
  /\ traceDict["e2"]["span_id"] = "0000000000000a02"
  /\ DOMAIN traceDict["e2"] = {eventIDKey, "trace_id", "span_id"}

(***************************************************************************)
(* cmd/restapi/handlers: DebugAPIController.EventGraph.                    *)
(***************************************************************************)
\* The parts of an event, empty when it has no response, content or parts.
EventParts(event) ==
  IF event.LLMResponse = Nil THEN <<>>
  ELSE IF Deref(event.LLMResponse).Content = Nil THEN <<>>
  ELSE Deref(Deref(event.LLMResponse).Content).Parts

\* func functionalCalls(event *session.Event) []*genai.FunctionCall
functionalCalls(event) ==
  LET withCall == SelectSeq(EventParts(event), LAMBDA part : part.FunctionCall # Nil)
  IN [i \in 1..Len(withCall) |-> Deref(withCall[i].FunctionCall)]

\* func functionalResponses(event *session.Event) []*genai.FunctionResponse
functionalResponses(event) ==
  LET withResponse ==
        SelectSeq(EventParts(event), LAMBDA part : part.FunctionResponse # Nil)
  IN [i \in 1..Len(withResponse) |-> Deref(withResponse[i].FunctionResponse)]

\* NamedPairs without the test of the name.
NamedPairsAll(fs, author) ==
  [i \in 1..Len(fs) |-> <<fs[i].Name, author>>]

\* for _, f := range fs { if f.Name != "" { append []string{f.Name, author} } }
NamedPairs(fs, author) ==
  LET named == SelectSeq(fs, LAMBDA f : f.Name # "")
  IN [i \in 1..Len(named) |-> <<named[i].Name, author>>]

\* HighlightedPairs asking for the function responses first.
HighlightedPairsResponsesFirst(event) ==
  LET fc == functionalCalls(event)
      fr == functionalResponses(event)
  IN IF Len(fr) > 0 THEN NamedPairs(fr, event.Author)
     ELSE IF Len(fc) > 0 THEN NamedPairs(fc, event.Author)
     ELSE <<<<event.Author, event.Author>>>>

\* lines 96-114 of EventGraph: highlightedPairs
HighlightedPairs(event) ==
  LET fc == functionalCalls(event)
      fr == functionalResponses(event)
  IN IF Len(fc) > 0 THEN NamedPairs(fc, event.Author)
     ELSE IF Len(fr) > 0 THEN NamedPairs(fr, event.Author)
     ELSE <<<<event.Author, event.Author>>>>

\* FindEvent without the break: the last event with the id.
FindEventLast(events, eventID) ==
  LET at == {i \in 1..Len(events) : events[i].ID = eventID}
  IN IF at = {} THEN Nil
     ELSE Ptr(events[CHOOSE i \in at : \A j \in at : i >= j])

\* lines 83-89: the first event of the session with the id, or nil
FindEvent(events, eventID) ==
  LET at == {i \in 1..Len(events) : events[i].ID = eventID}
  IN IF at = {} THEN Nil
     ELSE Ptr(events[CHOOSE i \in at : \A j \in at : i <= j])

\* StaticAgentLoader.agents
Agents == {"app1"}

\* func (s *StaticAgentLoader) LoadAgent(name string) (agent.Agent, error)
LoadAgent(name) ==
  IF name \notin Agents
    THEN [agent |-> Nil, err |-> "agent " \o name \o " not found"]
    ELSE [agent |-> Ptr(name), err |-> ""]

\* EventGraph answering a rendering error without the error's message.
EventGraphPlainRenderError(r) ==
  LET event == FindEvent(r.events, r.eventID)
      reached == ~r.sessionIDErr /\ ~r.getErr /\ r.eventID # "" /\ event # Nil
      pairs == HighlightedPairs(Deref(event))
      loaded == LoadAgent(r.appName)
  IN /\ graphReq' = r
     /\ graphEvent' = IF ~r.sessionIDErr /\ ~r.getErr /\ r.eventID # ""
                        THEN event ELSE Nil
     /\ highlightedPairs' = IF reached THEN Ptr(pairs) ELSE Nil
     /\ graphResp' =
          IF r.sessionIDErr THEN [status |-> 400, body |-> "session id error"]
          ELSE IF r.getErr THEN [status |-> 400, body |-> "session get error"]
          ELSE IF r.eventID = ""
            THEN [status |-> 400, body |-> "event_id parameter is required"]
          ELSE IF event = Nil THEN [status |-> 404, body |-> "event not found"]
          ELSE IF loaded.err # "" THEN [status |-> 500, body |-> loaded.err]
          ELSE IF r.renderErr
            THEN [status |-> 500, body |-> "Internal Server Error"]
          ELSE [status |-> 200,
                body |-> [dotSrc |-> <<"graph", Deref(loaded.agent), pairs>>]]
     /\ UNCHANGED <<regVars, storeVars, raceVars>>

\* func (c *DebugAPIController) EventGraph(rw, req).  The request gives
\* event_id and the application name; sessionIDErr, getErr and renderErr say
\* whether SessionIDFromHTTPParameters, sessionService.Get and GetAgentGraph
\* answer with an error, and events is the session Get returns.
EventGraph(r) ==
  LET event == FindEvent(r.events, r.eventID)
      reached == ~r.sessionIDErr /\ ~r.getErr /\ r.eventID # "" /\ event # Nil
      pairs == HighlightedPairs(Deref(event))
      loaded == LoadAgent(r.appName)
  IN /\ graphReq' = r
     /\ graphEvent' = IF ~r.sessionIDErr /\ ~r.getErr /\ r.eventID # ""
                        THEN event ELSE Nil
     /\ highlightedPairs' = IF reached THEN Ptr(pairs) ELSE Nil
     /\ graphResp' =
          IF r.sessionIDErr THEN [status |-> 400, body |-> "session id error"]
          ELSE IF r.getErr THEN [status |-> 400, body |-> "session get error"]
          ELSE IF r.eventID = ""
            THEN [status |-> 400, body |-> "event_id parameter is required"]
          ELSE IF event = Nil THEN [status |-> 404, body |-> "event not found"]
          ELSE IF loaded.err # "" THEN [status |-> 500, body |-> loaded.err]
          ELSE IF r.renderErr THEN [status |-> 500, body |-> "render error"]
          ELSE [status |-> 200,
                body |-> [dotSrc |-> <<"graph", Deref(loaded.agent), pairs>>]]
     /\ UNCHANGED <<regVars, storeVars, raceVars>>

\* The sessions the session service returns.
GraphEvent(id, author, response) ==
  [ID |-> id, InvocationID |-> "inv1", Author |-> author, LLMResponse |-> response]
WithParts(parts) == Ptr([Content |-> Ptr([Role |-> "model", Parts |-> parts])])

GraphSessions ==
  { <<>>,
    << GraphEvent("e1", "agent_a", WithParts(<<FunctionCallPart("c1", "search")>>)),
       GraphEvent("e2", "agent_b",
                  WithParts(<<FunctionCallPart("c1", ""),
                              FunctionResponsePart("r1", "lookup", Nil),
                              FunctionCallPart("c2", "lookup"),
                              FunctionCallPart("c3", "search")>>)),
       GraphEvent("e1", "agent_b", WithParts(<<TextPart>>)) >>,
    << GraphEvent("e1", "agent_a",
                  WithParts(<<FunctionResponsePart("r1", "search", OkMap),
                              FunctionResponsePart("r2", "", Nil),
                              FunctionResponsePart("r3", "lookup", Nil)>>)),
       GraphEvent("e2", "agent_a", WithParts(<<FunctionCallPart("c1", "")>>)),
       GraphEvent("e3", "agent_b", WithParts(<<FunctionResponsePart("r1", "", Nil)>>)) >>,
    << GraphEvent("e1", "agent_a", Nil),
       GraphEvent("e2", "agent_b", Ptr([Content |-> Nil])),
       GraphEvent("e3", "agent_a", WithParts(<<>>)) >> }

GraphRequests ==
  [sessionIDErr : BOOLEAN, getErr : BOOLEAN, events : GraphSessions,
   eventID : {"", "e1", "e2", "e3", "e9"}, appName : {"app1", "app2"},
   renderErr : BOOLEAN]

GraphNext == \E r \in GraphRequests : EventGraph(r)

\* The debug handler answering graph requests.
SpecGraph == Init /\ [][GraphNext]_vars

\* The function calls of an event with a name, as pairs with the author, in
\* part order.
CallPairs(event) ==
  LET calls == SelectSeq(EventParts(event),
                         LAMBDA part : /\ part.FunctionCall # Nil
                                       /\ Deref(part.FunctionCall).Name # "")
  IN [i \in 1..Len(calls) |-> <<Deref(calls[i].FunctionCall).Name, event.Author>>]

HasFunctionCall(event) ==
  \E i \in 1..Len(EventParts(event)) : EventParts(event)[i].FunctionCall # Nil
HasFunctionResponse(event) ==
  \E i \in 1..Len(EventParts(event)) : EventParts(event)[i].FunctionResponse # Nil

\* C10: for an event with at least one function call, the highlight pairs
\* are the pairs (call.Name, event.Author) of its calls with a non-empty
\* name, in part order, with or without function responses beside them.
C10_CallPairs ==
  (highlightedPairs # Nil /\ HasFunctionCall(Deref(graphEvent))) =>
     Deref(highlightedPairs) = CallPairs(Deref(graphEvent))

\* The event has two named calls, a call without a name and a response.
C10_Witness ==
  /\ highlightedPairs # Nil
  /\ HasFunctionCall(Deref(graphEvent)) /\ HasFunctionResponse(Deref(graphEvent))
  /\ Deref(highlightedPairs) = << <<"lookup", "agent_b">>, <<"search", "agent_b">> >>

\* The function responses of an event with a name, as pairs with the
\* author, in part order.
ResponsePairs(event) ==
  LET responses == SelectSeq(EventParts(event),
                             LAMBDA part : /\ part.FunctionResponse # Nil
                                           /\ Deref(part.FunctionResponse).Name # "")
  IN [i \in 1..Len(responses) |->
        <<Deref(responses[i].FunctionResponse).Name, event.Author>>]

\* C11: for an event with no function call, the highlight pairs are the
\* pairs (response.Name, event.Author) of its function responses with a
\* non-empty name, in part order, when it has at least one of them; an event
\* with neither a function call nor a function response (a nil response, a
\* nil content and an empty part list included) has the single pair
\* (event.Author, event.Author).
C11_ResponsePairsOrSelfPair ==
  (highlightedPairs # Nil /\ ~HasFunctionCall(Deref(graphEvent))) =>
     LET event == Deref(graphEvent)
     IN /\ Len(ResponsePairs(event)) >= 1 =>
             Deref(highlightedPairs) = ResponsePairs(event)
        /\ ~HasFunctionResponse(event) =>
             Deref(highlightedPairs) = << <<event.Author, event.Author>> >>

\* The event has two named responses and one without a name between them.
C11_Witness ==
  /\ highlightedPairs # Nil
  /\ ~HasFunctionCall(Deref(graphEvent))
  /\ Len(EventParts(Deref(graphEvent))) = 3
  /\ Deref(highlightedPairs) = << <<"search", "agent_a">>, <<"lookup", "agent_a">> >>

\* The event has no response at all and is paired with itself.
C11_SelfPairWitness ==
  /\ highlightedPairs # Nil
  /\ Deref(graphEvent).LLMResponse = Nil
  /\ Deref(highlightedPairs) = << <<"agent_a", "agent_a">> >>

\* C12: a trace request is answered 400 "event_id parameter is required"
\* when event_id is empty, 404 when it is non-empty and not a key of the
\* store, and 200 with the stored map otherwise; the store is the same after
\* the request as before it.
C12_TraceDictAnswers ==
  [][(traceReq' # traceReq \/ traceResp' # traceResp) =>
       /\ traceDict' = traceDict
       /\ traceReq' = "" =>
            traceResp' = [status |-> 400, body |-> "event_id parameter is required"]
       /\ (traceReq' # "" /\ traceReq' \notin DOMAIN traceDict) =>
            traceResp'.status = 404
       /\ (traceReq' # "" /\ traceReq' \in DOMAIN traceDict) =>
            traceResp' = [status |-> 200, body |-> traceDict[traceReq']]]_vars

\* A request for a stored id is answered with its map, and the store holds
\* the empty key beside it, which an empty event_id does not reach.
C12_Witness ==
  /\ traceReq = "e1"
  /\ traceResp.status = 200
  /\ "e1" \in DOMAIN traceDict
  /\ traceResp.body = traceDict["e1"]
  /\ "" \in DOMAIN traceDict

\* The positions of the events of the request's session with its event_id.
PositionsOf(r) == {i \in 1..Len(r.events) : r.events[i].ID = r.eventID}

\* The status the request is to be answered with, the tests taken in order.
ExpectedGraphStatus(r) ==
  CASE r.sessionIDErr -> 400
    [] ~r.sessionIDErr /\ r.getErr -> 400
    [] ~r.sessionIDErr /\ ~r.getErr /\ r.eventID = "" -> 400
    [] ~r.sessionIDErr /\ ~r.getErr /\ r.eventID # "" /\ PositionsOf(r) = {} -> 404
    [] ~r.sessionIDErr /\ ~r.getErr /\ r.eventID # "" /\ PositionsOf(r) # {}
         /\ r.appName \notin Agents -> 500
    [] ~r.sessionIDErr /\ ~r.getErr /\ r.eventID # "" /\ PositionsOf(r) # {}
         /\ r.appName \in Agents /\ r.renderErr -> 500
    [] OTHER -> 200

\* C13: a graph request is answered with one status, the first that applies
\* of: 400 malformed session id, 400 failed session lookup, 400 empty
\* event_id, 404 no event with the id, 500 failed agent load, 500 failed
\* rendering, and 200 with {"dotSrc": graph} otherwise; the event used is
\* the first of the session, in session order, with the id.
C13_EventGraphStatusOrder ==
  graphReq # NoRequest =>
    /\ graphResp.status = ExpectedGraphStatus(graphReq)
    /\ graphResp.status = 200 => DOMAIN graphResp.body = {"dotSrc"}
    /\ graphResp.status \in {200, 500} =>
         /\ graphEvent # Nil
         /\ \E i \in PositionsOf(graphReq) :
              /\ \A j \in PositionsOf(graphReq) : i <= j
              /\ Deref(graphEvent) = graphReq.events[i]

\* The session has two events with the requested id, by different authors,
\* and the graph is drawn for the first.
C13_Witness ==
  /\ graphReq # NoRequest
  /\ graphResp.status = 200
  /\ graphReq.eventID = "e1"
  /\ Len(graphReq.events) = 3
  /\ graphReq.events[3].ID = "e1"
  /\ Deref(graphEvent) = graphReq.events[1]
  /\ Deref(graphEvent) # graphReq.events[3]

\* The request reaches the session store, which answers with an error.
SessionStoreFails(r) == ~r.sessionIDErr /\ r.getErr

\* The request reaches the rendering of the graph, which fails.
RenderingFails(r) ==
  /\ ~r.sessionIDErr /\ ~r.getErr /\ r.eventID # ""
  /\ PositionsOf(r) # {}
  /\ r.appName \in Agents
  /\ r.renderErr

\* C14 as stated: an error of the session store or of the rendering of the
\* graph is answered with status 500 and the error's message.
C14_DownstreamFailure500 ==
  /\ SessionStoreFails(graphReq) =>
       graphResp = [status |-> 500, body |-> "session get error"]
  /\ RenderingFails(graphReq) =>
       graphResp = [status |-> 500, body |-> "render error"]

\* C14, amended: an error of the session store is answered with status 400
\* and an error of the rendering of the graph with status 500, each with the
\* error's message.
C14_StoreError400RenderError500 ==
  /\ SessionStoreFails(graphReq) =>
       graphResp = [status |-> 400, body |-> "session get error"]
  /\ RenderingFails(graphReq) =>
       graphResp = [status |-> 500, body |-> "render error"]

\* The session store fails for a request whose event and agent exist.
C14_Witness ==
  /\ SessionStoreFails(graphReq)
  /\ PositionsOf(graphReq) # {}
  /\ graphReq.appName \in Agents
  /\ graphResp.status = 400

\* The rendering fails.
C14_RenderWitness ==
  /\ RenderingFails(graphReq)
  /\ graphResp.status = 500

\* The values a span handle was given under a key.
ValuesSet(span, key) ==
  {span.attrs[i].Value : i \in {j \in 1..Len(span.attrs) : span.attrs[j].Key = key}}

\* The function response in the first response part of an event, or nil: the
\* event has no response content, no part, or a first part that is not a
\* function response.
FirstFunctionResponse(event) ==
  IF Len(EventParts(event)) = 0 THEN Nil
  ELSE EventParts(event)[1].FunctionResponse

notSpecified == "<not specified>"

ExpectedToolCallID(event) ==
  LET fr == FirstFunctionResponse(event)
  IN IF fr = Nil THEN notSpecified
     ELSE IF Deref(fr).ID = "" THEN notSpecified
     ELSE Deref(fr).ID

ExpectedToolResponse(event) ==
  LET fr == FirstFunctionResponse(event)
  IN IF fr = Nil THEN notSpecified
     ELSE IF Deref(fr).Response = Nil THEN notSpecified
     ELSE safeSerialize(MapTree(Deref(fr).Response))

\* C15: TraceToolCall called with a non-nil result event returns having set,
\* on every span, gen_ai.tool.call.id to the ID of the function response in
\* the event's first response part and gcp.vertex.agent.tool_response to the
\* serialization of its Response, each "<not specified>" when the value is
\* absent: no response content, no parts, a first part that is not a function
\* response, an empty ID, a nil Response.
C15_ToolCallIDAndResponse ==
  \A t \in Threads :
    (call[t].fn = "TraceToolCall" /\ call[t].event # Nil) =>
       /\ outcome[t] = "returned"
       /\ \A i \in 1..Len(spans[t]) :
            /\ ValuesSet(spans[t][i], genAiToolCallID) =
                 {[Type |-> "STRING", v |-> ExpectedToolCallID(Deref(call[t].event))]}
            /\ ValuesSet(spans[t][i], "gcp.vertex.agent.tool_response") =
                 {[Type |-> "STRING", v |-> ExpectedToolResponse(Deref(call[t].event))]}

\* C15 for the events that have a response content: the part of the claim
\* that the panic of line 153 leaves standing.
C15_WithContent ==
  \A t \in Threads :
    (/\ call[t].fn = "TraceToolCall" /\ call[t].event # Nil
     /\ Deref(call[t].event).LLMResponse # Nil
     /\ Deref(Deref(call[t].event).LLMResponse).Content # Nil) =>
       /\ outcome[t] = "returned"
       /\ \A i \in 1..Len(spans[t]) :
            /\ ValuesSet(spans[t][i], genAiToolCallID) =
                 {[Type |-> "STRING", v |-> ExpectedToolCallID(Deref(call[t].event))]}
            /\ ValuesSet(spans[t][i], "gcp.vertex.agent.tool_response") =
                 {[Type |-> "STRING", v |-> ExpectedToolResponse(Deref(call[t].event))]}

\* C16: no step of ExportSpans, Shutdown, GetTraceDict or TraceDict removes
\* an id from the trace store; Shutdown leaves the store as it was; and a
\* batch exported after Shutdown is stored like any other: every id it
\* carries on a kept span is a key of the store afterwards.
C16_StoreOnlyGrows ==
  [][ /\ DOMAIN traceDict \subseteq DOMAIN traceDict'
      /\ isShutdown' # isShutdown => traceDict' = traceDict
      /\ isShutdown =>
           \A i \in StorableIn(exported', Len(exported) + 1, Len(exported')) :
              \E k \in DOMAIN traceDict' :
                 i \in SourcesOf(exported', Len(exported) + 1, Len(exported'), k)
    ]_vars

\* Shutdown was called on a store holding "e1", which is still there, and
\* a span exported after it has put "e2" in the store.
C16_Witness ==
  /\ isShutdown
  /\ exportedAtShutdown >= 1
  /\ SourcesOf(exported, 1, exportedAtShutdown, "e1") # {}
  /\ SourcesOf(exported, 1, exportedAtShutdown, "e2") = {}
  /\ SourcesOf(exported, exportedAtShutdown + 1, Len(exported), "e2") # {}
  /\ {"e1", "e2"} \subseteq DOMAIN traceDict

\* C17: the map writes of ExportSpans and the map reads of TraceDict are not
\* mutually excluded.  A write in progress does not hold back the beginning
\* of a read, and a read in progress does not hold back the beginning of a
\* write; the state in which both are in progress is C17_Witness.
C17_ReadsAndWritesNotExcluded ==
  /\ (exporterPc = "writing" /\ handlerPc = "idle") =>
        \A eventID \in TraceRequestIDs \ {""} :
           ENABLED (TraceDictCall(eventID) /\ handlerPc' = "reading")
  /\ (handlerPc = "reading" /\ exporterPc = "range"
      /\ exportIdx <= Len(exportBatch) /\ ReachesMapWrite(CurrentSpan)) =>
        ENABLED (ExportSpansRange /\ exporterPc' = "writing")
  /\ (handlerPc = "reading" /\ exporterPc = "writing") =>
        (ENABLED ExportSpansWrite /\ ENABLED TraceDictRead)

\* One export batch of one span and one trace request: the write of the
\* span's entry and the read for the request are in progress together.
C17_Witness ==
  /\ exporterPc = "writing"
  /\ handlerPc = "reading"
  /\ Len(exported) = 1
  /\ exportBatch = exported
  /\ readRaced

emptyObject == [Type |-> "STRING", v |-> "{}"]

\* C18: every span ended by TraceToolCall or TraceMergedToolCalls carries the
\* attributes gcp.vertex.agent.llm_request and gcp.vertex.agent.llm_response,
\* both with the value "{}".
C18_EmptyRequestAndResponse ==
  \A t \in Threads :
    call[t].fn \in {"TraceToolCall", "TraceMergedToolCalls"} =>
      \A i \in 1..Len(spans[t]) :
        spans[t][i].ends >= 1 =>
          /\ ValuesSet(spans[t][i], "gcp.vertex.agent.llm_request") = {emptyObject}
          /\ ValuesSet(spans[t][i], "gcp.vertex.agent.llm_response") = {emptyObject}

\* What the annotators do instead: the ended span carries the request
\* attribute, set twice, and no response attribute.
C18_RequestOnly ==
  \A t \in Threads :
    call[t].fn \in {"TraceToolCall", "TraceMergedToolCalls"} =>
      \A i \in 1..Len(spans[t]) :
        spans[t][i].ends >= 1 =>
          /\ ValuesSet(spans[t][i], "gcp.vertex.agent.llm_request") = {emptyObject}
          /\ ValuesSet(spans[t][i], "gcp.vertex.agent.llm_response") = {}

\* The exported spans that are kept by name, carry an event-id attribute and
\* whose map is the one stored under k.
StoredSpans(k) ==
  {i \in StorableIn(exported, 1, Len(exported)) :
     /\ DOMAIN traceDict[k] = AttributeKeys(exported[i]) \cup {"trace_id", "span_id"}
     /\ traceDict[k]["trace_id"] = Hex(exported[i].TraceID)
     /\ traceDict[k]["span_id"] = Hex(exported[i].SpanID)}

\* C20: a stored map holds, under the key of each attribute of its span, the
\* attribute's string when the attribute is of string type, and the empty
\* string when it is of any other type (the float gen_ai.request.top_p, an
\* integer).
C20_NonStringStoredEmpty ==
  \A k \in DOMAIN traceDict :
    \E i \in StoredSpans(k) :
      \A x \in AttributeKeys(exported[i]) \ {"trace_id", "span_id"} :
        traceDict[k][x] = IF LastValue(exported[i], x).Type = "STRING"
                            THEN LastValue(exported[i], x).v
                            ELSE ""

\* The span of "e1" with the float attribute top_p = 0.9 is stored with the
\* empty string under gen_ai.request.top_p, and the span with an integer
\* event id is stored under the empty key with an empty event id.
C20_Witness ==
  /\ "e1" \in DOMAIN traceDict
  /\ "gen_ai.request.top_p" \in DOMAIN traceDict["e1"]
  /\ traceDict["e1"]["gen_ai.request.top_p"] = ""
  /\ traceDict["e1"][eventIDKey] = "e1"
  /\ "" \in DOMAIN traceDict
  /\ traceDict[""][eventIDKey] = ""

(***************************************************************************)
(* Properties of the registry.                                             *)
(***************************************************************************)
IsPrefix(a, b) == Len(a) <= Len(b) /\ \A i \in 1..Len(a) : a[i] = b[i]

\* The processors attached to the published local tracer provider.
Attached == providers[localTracer.data]

\* C1: when a tracer request created the local provider, the processors
\* registered before the first StartTrace began are all attached, in
\* registration order, at the head of the attached list; and when no
\* registration ran concurrently with that request, the attached list is
\* exactly that list, each processor once.
C1_RegisteredBeforeFirstTrace ==
  (once = "done" /\ initBy = "getTracers") =>
     /\ IsPrefix(regBefore, Attached)
     /\ (~raced => Attached = regBefore)

\* Two different processors were registered, then the first StartTrace
\* created the provider with no registration racing it.
C1_Witness ==
  /\ once = "done" /\ initBy = "getTracers" /\ ~raced
  /\ Len(regBefore) = 2 /\ regBefore[1] # regBefore[2]
  /\ Attached = regBefore

\* C2: once a first StartTrace has completed, the processors attached to the
\* local provider stay what they were at that moment, whatever is registered
\* or traced later, and a registration waiting for the write lock waits only
\* for another registration, which releases it: it returns.
C2_LateRegistrationIgnored ==
  firstDone # Nil =>
     /\ localTracer.data # 0 /\ Attached = Deref(firstDone)
     /\ \A t \in Threads :
          pc[t] = "add63" => (mu = NoThread \/ pc[mu] = "add65")

\* A registration that began after a StartTrace had completed has returned,
\* and its processor is in the list but not attached.
C2_Witness ==
  /\ firstDone # Nil /\ lateAdd
  /\ \A t \in Threads : pc[t] = "idle"
  /\ Len(spanProcessors) > Len(Attached)
  /\ Attached = Deref(firstDone)

\* C19: however registrations interleave with the initializer, the
\* processors attached to a provider are a prefix of the processor list,
\* which is in write-lock order: none is attached twice or out of order.  The
\* prefix holds every processor whose registration had returned when the
\* initializer began, and no processor appended after the initializer copied
\* the slice, while it iterates.
C19_AttachedIsPrefix ==
  /\ \A p \in 1..Len(providers) :
       /\ IsPrefix(providers[p], spanProcessors)
       /\ Len(providers[p]) <= Len(initHist.atSnapshot)
  /\ once = "done" =>
       /\ IsPrefix(initHist.atStart, Attached)
       /\ Attached = initHist.atSnapshot

\* One processor was registered before the initializer began, one between
\* its beginning and its copy of the slice, and one while it was in its
\* loop: the first two are attached, the third is in the list only.
C19_Witness ==
  /\ once = "done"
  /\ Len(initHist.atStart) = 1
  /\ Len(initHist.atSnapshot) = 2
  /\ initHist.inLoop
  /\ Len(spanProcessors) = 3
  /\ Attached = initHist.atSnapshot

\* C3: the initializer body runs once, one provider exists, and every
\* StartTrace call gets its local tracer from that provider: none calls into
\* an unset provider.
C3_InitOnceNoNilProvider ==
  /\ initRuns <= 1
  /\ Len(providers) <= 1
  /\ \A t \in Threads :
       /\ pc[t] # "panicked"
       /\ pc[t] = "started" => spans[t][1].provider = 1

\* C4: every StartTrace call returns two spans, the first started on the
\* local tracer and the second on the global tracer, both not ended and both
\* with the operation name of the call.
C4_StartTraceTwoSpans ==
  \A t \in Threads :
    /\ pc[t] # "panicked"
    /\ pc[t] = "started" =>
         /\ Len(spans[t]) = 2
         /\ spans[t][1].tracer = "local" /\ spans[t][2].tracer = "global"
         /\ \A i \in 1..2 : spans[t][i].ends = 0 /\ spans[t][i].name = arg[t]

====
